---- MODULE Spec2Model ----
(***************************************************************************)
(* Snapshot cache and refresh pipeline of the LeadingStock server.         *)
(*                                                                         *)
(*   server/cache.py         GLOBAL_CACHE, CACHE_LOCK                      *)
(*   server/cache_worker.py  cache_loop (the worker that fills the cache)  *)
(*   server/main.py          the HTTP handlers, the WebSocket Hub and      *)
(*                           refresh_loop (the worker that broadcasts)     *)
(*                                                                         *)
(* Scheduling.  cache_loop, refresh_loop, the task work(), the WebSocket   *)
(* handlers and the "async def" HTTP handlers are coroutines of one        *)
(* asyncio event loop: a coroutine keeps the loop's thread from one await  *)
(* to the next.  loop_task names the coroutine that is in the middle of    *)
(* such a stretch ("idle" between callbacks).  health is a plain "def"     *)
(* handler, which FastAPI runs on a thread of its pool: it interleaves     *)
(* with the loop's thread at any point and is held back by CACHE_LOCK      *)
(* (a threading.Lock) only.                                                *)
(***************************************************************************)
EXTENDS Integers, Sequences, FiniteSets, TLC

(***************************************************************************)
(* Bounds of the model.                                                    *)
(***************************************************************************)
NumCodes == 2          \* distinct stock codes the data source can list
MaxCycles == 3         \* iterations of cache_loop
MaxBackoffCycles == 11 \* iterations of cache_loop in the back-off study
MaxWorkerCycles == 2   \* iterations of cache_loop beside refresh_loop
MaxServerCycles == 1   \* iterations of cache_loop in the whole server
MaxSeq == 2            \* iterations of refresh_loop
NumConns == 2          \* WebSocket connections
MaxTriggers == 2       \* refresh triggers counted in one fetch window

(***************************************************************************)
(* Program constants.                                                      *)
(***************************************************************************)
MAX_BACKOFF == 300     \* cache_worker.py: MAX_BACKOFF = 300
INITIAL_BACKOFF == 1   \* cache_worker.py: backoff = 1
CACHE_INTERVAL == 60   \* cache_worker.py: CACHE_INTERVAL (default "60")
NoTime == 0            \* cache.py: "updated_at": None

Codes == 1..NumCodes
Conns == 1..NumConns

\* A value of the kind snapshot: the dict build_snapshot returns.  cycle names
\* the iteration of cache_loop that built the object (0: no object, None).
NoSnapshot == [cycle |-> 0, stocks |-> <<>>]
\* A value of the kind detail map: {code: StockDetail}.  cycle names the
\* iteration that built the dict (0: the dict of the module's initialisation).
EmptyDetail == [cycle |-> 0, codes |-> {}]

\* The lists of stocks build_snapshot can return: distinct codes (each row of
\* the source's table is one stock), here in ascending order.
RECURSIVE SeqOfSet(_)
SeqOfSet(S) ==
    IF S = {} THEN <<>>
    ELSE LET m == CHOOSE x \in S : \A y \in S : x <= y
         IN  <<m>> \o SeqOfSet(S \ {m})
StockLists == { SeqOfSet(S) : S \in SUBSET Codes }
\* The lists of at most one stock.
ShortStockLists == { l \in StockLists : Len(l) <= 1 /\ (l # <<>> => l[1] = 1) }

VARIABLES
    GLOBAL_CACHE,   \* cache.py: [snapshot, detail, updated_at, status]
    CACHE_LOCK,     \* cache.py: the holder of the lock, or "free"
    loop_task,      \* the coroutine occupying the event loop's thread
    now,            \* time(): a logical clock, advanced by every sleep
    cl_pc,          \* cache_loop: position
    cycle,          \* cache_loop: number of the current iteration
    backoff,        \* cache_loop: backoff
    sleep_for,      \* cache_loop: argument of the pending asyncio.sleep
    fail_run,       \* cache_loop: failed iterations since the last success
    new_snapshot,   \* cache_loop: new_snapshot
    new_detail,     \* cache_loop: new_detail
    idx,            \* cache_loop: position in new_snapshot["stocks"]
    cycle_start,    \* GLOBAL_CACHE as it was when the iteration began
    h_pc,           \* health (thread of the pool): position
    sd_pc,          \* stock_detail: position
    sd_detail,      \* stock_detail: detail
    http_resp,      \* the last response of an async HTTP handler
    APP_TOKEN,      \* main.py: APP_TOKEN ("" when none is configured)
    rl_pc,          \* refresh_loop: position
    i,              \* refresh_loop: i
    payload,        \* refresh_loop: payload
    latest_payload, \* main.py: _latest_payload
    refresh_now,    \* main.py: _refresh_now (is the event set)
    inflight_refresh, \* main.py: _inflight_refresh (the state of the task)
    bc_clients,     \* Hub.broadcast: the part of clients still to be sent to
    woken_by,       \* refresh_loop: how the last wait_for ended
    hub_clients,    \* Hub._clients
    ws_pc,          \* ws_endpoint, for each connection: position
    conn_open,      \* for each connection: is the peer connected
    inbox,          \* for each connection: the frames the peer received
    \* History variables: they record what happened and steer nothing.
    detail_tried,   \* codes whose detail fetch of this cycle has ended
    detail_ok,      \* codes whose detail fetch of this cycle gave a record
    detail_failed,  \* codes whose detail fetch of this cycle ended in an error
    published,      \* the cycle of the last completed publish (0: none)
    published_at,   \* the time of the last completed publish
    trig_window,    \* triggers that arrived during the fetch in flight
    absorbed,       \* trig_window when the last fetch window closed
    trig_after,     \* has a trigger arrived since the last window closed
    bc_all,         \* Hub.broadcast: the connections in clients, as copied
    bc_failed,      \* for each connection: seq of the broadcast whose send
                    \* to it failed (0: none)
    joined_in,      \* for each connection: the cache status when its
                    \* request was handled ("": not yet)
    conn_stalled,   \* for each connection: has its peer stopped reading, so
                    \* that a send to it does not return
    hub_lock,       \* Hub._lock: "free", or the coroutine inside the
                    \* "async with self._lock" block
    ws_token        \* for each connection: the token of its request when
                    \* APP_TOKEN is configured ("none": no request yet)

detailHist == <<detail_tried, detail_ok, detail_failed>>
cacheVars == <<GLOBAL_CACHE, CACHE_LOCK, now, cl_pc, cycle, backoff, sleep_for,
               fail_run, new_snapshot, new_detail, idx, cycle_start,
               detailHist, published, published_at>>
readerVars == <<h_pc, sd_pc, sd_detail, http_resp>>
rlVars == <<rl_pc, i, payload, latest_payload, refresh_now, inflight_refresh,
           bc_clients, woken_by, bc_all>>
hubVars == <<hub_clients, ws_pc, conn_open, inbox, bc_failed, joined_in,
             conn_stalled, hub_lock, ws_token>>
trigVars == <<trig_window, absorbed, trig_after>>
vars == <<cacheVars, readerVars, rlVars, hubVars, trigVars, loop_task, APP_TOKEN>>

Min(a, b) == IF a <= b THEN a ELSE b

\* The tokens a request can carry ("" when the header is missing).
Tokens == {"", "secret", "wrong"}

NoResp == [kind |-> "none", cycle |-> 0, dcycle |-> 0]
NoDetailRec == [cycle |-> 0, code |-> 0]
NoPayload == [seq |-> 0, data |-> "none"]
\* The frame {"type": "hello", ...} in an inbox; a snapshot frame is its payload.
Hello == [seq |-> 0, data |-> "hello"]

Init ==
    /\ GLOBAL_CACHE = [snapshot |-> NoSnapshot, detail |-> EmptyDetail,
                       updated_at |-> NoTime, status |-> "warming_up"]
    /\ CACHE_LOCK = "free"
    /\ loop_task = "idle"
    /\ now = 1
    /\ cl_pc = "top"
    /\ cycle = 0
    /\ backoff = INITIAL_BACKOFF
    /\ sleep_for = 0
    /\ fail_run = 0
    /\ new_snapshot = NoSnapshot
    /\ new_detail = EmptyDetail
    /\ idx = 0
    /\ cycle_start = GLOBAL_CACHE
    /\ h_pc = "idle"
    /\ sd_pc = "idle"
    /\ sd_detail = NoDetailRec
    /\ http_resp = NoResp
    /\ APP_TOKEN \in {"", "secret"}
    /\ rl_pc = "top"
    /\ i = 0
    /\ payload = NoPayload
    /\ latest_payload = NoPayload
    /\ refresh_now = FALSE
    /\ inflight_refresh = "none"
    /\ bc_clients = <<>>
    /\ hub_clients = {}
    /\ ws_pc = [c \in Conns |-> "new"]
    /\ conn_open = [c \in Conns |-> FALSE]
    /\ inbox = [c \in Conns |-> <<>>]
    /\ woken_by = "startup"
    /\ detail_tried = {}
    /\ detail_ok = {}
    /\ detail_failed = {}
    /\ published = 0
    /\ published_at = NoTime
    /\ trig_window = 0
    /\ absorbed = 0
    /\ trig_after = FALSE
    /\ bc_all = {}
    /\ bc_failed = [c \in Conns |-> 0]
    /\ joined_in = [c \in Conns |-> ""]
    /\ conn_stalled = [c \in Conns |-> FALSE]
    /\ hub_lock = "free"
    /\ ws_token = [c \in Conns |-> "none"]

(***************************************************************************)
(* The data source (server/data_sources/naver_finance.py).                 *)
(***************************************************************************)
\* What a network call of the data source can end in.
FetchOutcomes == {"ok", "absent", "timeout", "http_error", "parse_error"}

\* build_snapshot: fetch_rising_stocks lets every error of _get and of the
\* parser escape; fetch_index_quotes swallows its own.  "absent" (an empty
\* table) is a snapshot without stocks.
build_snapshot(outcome, stocks) ==
    CASE outcome = "ok"     -> [raised |-> FALSE, stocks |-> stocks]
      [] outcome = "absent" -> [raised |-> FALSE, stocks |-> <<>>]
      [] OTHER              -> [raised |-> TRUE, stocks |-> <<>>]

\* fetch_stock_detail: the whole body is inside try/except Exception, which
\* prints and returns None; a page that cannot be parsed returns None too.
fetch_stock_detail_reraising(outcome) ==
    CASE outcome = "ok"     -> [raised |-> FALSE, httpx |-> FALSE, record |-> TRUE]
      [] outcome = "absent" -> [raised |-> FALSE, httpx |-> FALSE, record |-> FALSE]
      [] outcome = "parse_error" -> [raised |-> TRUE, httpx |-> FALSE, record |-> FALSE]
      [] OTHER              -> [raised |-> TRUE, httpx |-> TRUE, record |-> FALSE]

fetch_stock_detail(outcome) ==
    [raised |-> FALSE, httpx |-> FALSE, record |-> (outcome = "ok")]

(***************************************************************************)
(* Aggregate fetches in flight, and the triggers of a fetch window.        *)
(***************************************************************************)
\* The calls of build_snapshot that are awaiting the data source: the one of
\* cache_loop and the one of the task work().
InFlight ==
    (IF cl_pc = "build" THEN 1 ELSE 0)
    + (IF inflight_refresh = "fetching" THEN 1 ELSE 0)

\* History: a new cycle has no detail fetch behind it.
ClearDetailHist ==
    /\ detail_tried' = {}
    /\ detail_ok' = {}
    /\ detail_failed' = {}

\* History: an aggregate fetch starts.
FetchStarts ==
    IF InFlight = 0
    THEN /\ trig_window' = 0
         /\ trig_after' = FALSE
         /\ UNCHANGED absorbed
    ELSE UNCHANGED trigVars

\* History: an aggregate fetch ends.
FetchEnds ==
    IF InFlight = 1
    THEN /\ absorbed' = trig_window
         /\ UNCHANGED <<trig_window, trig_after>>
    ELSE UNCHANGED trigVars

\* History: an authorized refresh request sets the event.
TriggerArrives ==
    IF InFlight > 0
    THEN /\ trig_window' = Min(trig_window + 1, MaxTriggers)
         /\ UNCHANGED <<absorbed, trig_after>>
    ELSE /\ trig_after' = TRUE
         /\ UNCHANGED <<trig_window, absorbed>>

(***************************************************************************)
(* cache_loop (server/cache_worker.py).                                    *)
(***************************************************************************)
\* The position of the next stock, from k on, whose code is not empty
\* ("if not code: continue"); Len + 1 when there is none.
RECURSIVE NextStock(_, _)
NextStock(stocks, k) ==
    IF k > Len(stocks) THEN Len(stocks) + 1
    ELSE IF stocks[k] # 0 THEN k
    ELSE NextStock(stocks, k + 1)

\* After the stock at position k: on to the next detail fetch, or out of the
\* "async with" block when the list is exhausted.
AfterStock(stocks, k) ==
    LET n == NextStock(stocks, k)
    IN  /\ idx' = n
        /\ cl_pc' = IF n <= Len(stocks) THEN "detail" ELSE "swap"

\* "while True: try: ... await build_snapshot(client)": an iteration begins.
cache_loop_begin(limit) ==
    /\ cl_pc = "top"
    /\ loop_task = "idle"
    /\ cycle < limit
    /\ cycle' = cycle + 1
    /\ cycle_start' = GLOBAL_CACHE
    /\ cl_pc' = "build"
    /\ FetchStarts
    /\ UNCHANGED <<GLOBAL_CACHE, CACHE_LOCK, now, backoff, sleep_for, fail_run,
                   new_snapshot, new_detail, idx, loop_task, detailHist, published, published_at>>
    /\ UNCHANGED <<readerVars, rlVars, hubVars, APP_TOKEN>>

\* build_snapshot returns or raises.
cache_loop_build_snapshot_publishing(lists) ==
    /\ cl_pc = "build"
    /\ loop_task = "idle"
    /\ \E outcome \in FetchOutcomes, stocks \in lists :
         /\ outcome # "ok" => stocks = <<>>
         /\ LET r == build_snapshot(outcome, stocks)
            IN  IF r.raised
                THEN /\ cl_pc' = "except"
                     /\ loop_task' = "cache_loop"
                     /\ UNCHANGED <<new_snapshot, new_detail, idx, detailHist>>
                     /\ UNCHANGED GLOBAL_CACHE
                ELSE /\ new_snapshot' = [cycle |-> cycle, stocks |-> r.stocks]
                     /\ GLOBAL_CACHE' =
                            [GLOBAL_CACHE EXCEPT !.snapshot = new_snapshot']
                     /\ new_detail' = [cycle |-> cycle, codes |-> {}]
                     /\ AfterStock(r.stocks, 1)
                     /\ loop_task' = "idle"
                     /\ ClearDetailHist
    /\ FetchEnds
    /\ UNCHANGED <<CACHE_LOCK, now, cycle, backoff, sleep_for,
                   fail_run, cycle_start, published, published_at>>
    /\ UNCHANGED <<readerVars, rlVars, hubVars, APP_TOKEN>>

cache_loop_build_snapshot(lists) ==
    /\ cl_pc = "build"
    /\ loop_task = "idle"
    /\ \E outcome \in FetchOutcomes, stocks \in lists :
         /\ outcome # "ok" => stocks = <<>>
         /\ LET r == build_snapshot(outcome, stocks)
            IN  IF r.raised
                THEN /\ cl_pc' = "except"
                     /\ loop_task' = "cache_loop"
                     /\ UNCHANGED <<new_snapshot, new_detail, idx, detailHist>>
                ELSE /\ new_snapshot' = [cycle |-> cycle, stocks |-> r.stocks]
                     /\ new_detail' = [cycle |-> cycle, codes |-> {}]
                     /\ AfterStock(r.stocks, 1)
                     /\ loop_task' = "idle"
                     /\ ClearDetailHist
    /\ FetchEnds
    /\ UNCHANGED <<GLOBAL_CACHE, CACHE_LOCK, now, cycle, backoff, sleep_for,
                   fail_run, cycle_start, published, published_at>>
    /\ UNCHANGED <<readerVars, rlVars, hubVars, APP_TOKEN>>

\* History: what the data source answered to the detail fetch of code.
RecordDetail(code, outcome) ==
    /\ detail_tried' = detail_tried \cup {code}
    /\ detail_ok' = IF outcome = "ok" THEN detail_ok \cup {code} ELSE detail_ok
    /\ detail_failed' = IF outcome \in {"timeout", "http_error", "parse_error"}
                        THEN detail_failed \cup {code} ELSE detail_failed

\* fetch_stock_detail(client, code) returns or raises.
cache_loop_fetch_stock_detail ==
    /\ cl_pc = "detail"
    /\ loop_task = "idle"
    /\ \E outcome \in FetchOutcomes :
         LET r == fetch_stock_detail(outcome)
             code == new_snapshot.stocks[idx]
         IN  IF r.raised /\ ~r.httpx
             THEN /\ cl_pc' = "except"
                  /\ loop_task' = "cache_loop"
                  /\ UNCHANGED <<new_detail, idx>>
                  /\ RecordDetail(code, outcome)
             ELSE /\ RecordDetail(code, outcome)
                  /\ new_detail' =
                        IF ~r.raised /\ r.record
                        THEN [new_detail EXCEPT !.codes = @ \cup {code}]
                        ELSE new_detail
                  /\ AfterStock(new_snapshot.stocks, idx + 1)
                  /\ loop_task' = "idle"
    /\ UNCHANGED <<GLOBAL_CACHE, CACHE_LOCK, now, cycle, backoff, sleep_for,
                   fail_run, new_snapshot, cycle_start, published, published_at>>
    /\ UNCHANGED <<readerVars, rlVars, hubVars, APP_TOKEN, trigVars>>

\* "with CACHE_LOCK:" of the swap.
cache_loop_swap_unlocked ==
    /\ cl_pc = "swap"
    /\ loop_task = "idle"
    /\ loop_task' = "cache_loop"
    /\ cl_pc' = "swap_snapshot"
    /\ UNCHANGED <<GLOBAL_CACHE, CACHE_LOCK, now, cycle, backoff, sleep_for,
                   fail_run, new_snapshot, new_detail, idx, cycle_start>>
    /\ UNCHANGED <<readerVars, rlVars, hubVars, APP_TOKEN, trigVars>>
    /\ UNCHANGED <<detailHist, published, published_at>>

cache_loop_swap_acquire ==
    /\ cl_pc = "swap"
    /\ loop_task = "idle"
    /\ CACHE_LOCK = "free"
    /\ CACHE_LOCK' = "cache_loop"
    /\ loop_task' = "cache_loop"
    /\ cl_pc' = "swap_snapshot"
    /\ UNCHANGED <<GLOBAL_CACHE, now, cycle, backoff, sleep_for, fail_run,
                   new_snapshot, new_detail, idx, cycle_start>>
    /\ UNCHANGED <<readerVars, rlVars, hubVars, APP_TOKEN, trigVars>>
    /\ UNCHANGED <<detailHist, published, published_at>>

\* GLOBAL_CACHE["snapshot"] = new_snapshot
cache_loop_swap_snapshot ==
    /\ cl_pc = "swap_snapshot"
    /\ GLOBAL_CACHE' = [GLOBAL_CACHE EXCEPT !.snapshot = new_snapshot]
    /\ cl_pc' = "swap_detail"
    /\ UNCHANGED <<CACHE_LOCK, now, cycle, backoff, sleep_for, fail_run,
                   new_snapshot, new_detail, idx, cycle_start, loop_task>>
    /\ UNCHANGED <<readerVars, rlVars, hubVars, APP_TOKEN, trigVars>>
    /\ UNCHANGED <<detailHist, published, published_at>>

\* GLOBAL_CACHE["detail"] = new_detail
cache_loop_swap_detail_merging ==
    /\ cl_pc = "swap_detail"
    /\ GLOBAL_CACHE' = [GLOBAL_CACHE EXCEPT
                           !.detail = [cycle |-> new_detail.cycle,
                                       codes |-> @.codes \cup new_detail.codes]]
    /\ cl_pc' = "swap_updated_at"
    /\ UNCHANGED <<CACHE_LOCK, now, cycle, backoff, sleep_for, fail_run,
                   new_snapshot, new_detail, idx, cycle_start, loop_task>>
    /\ UNCHANGED <<readerVars, rlVars, hubVars, APP_TOKEN, trigVars>>
    /\ UNCHANGED <<detailHist, published, published_at>>

cache_loop_swap_detail ==
    /\ cl_pc = "swap_detail"
    /\ GLOBAL_CACHE' = [GLOBAL_CACHE EXCEPT !.detail = new_detail]
    /\ cl_pc' = "swap_updated_at"
    /\ UNCHANGED <<CACHE_LOCK, now, cycle, backoff, sleep_for, fail_run,
                   new_snapshot, new_detail, idx, cycle_start, loop_task>>
    /\ UNCHANGED <<readerVars, rlVars, hubVars, APP_TOKEN, trigVars>>
    /\ UNCHANGED <<detailHist, published, published_at>>

\* GLOBAL_CACHE["updated_at"] = time()
cache_loop_swap_updated_at_skipped ==
    /\ cl_pc = "swap_updated_at"
    /\ UNCHANGED GLOBAL_CACHE
    /\ cl_pc' = "swap_status"
    /\ UNCHANGED <<CACHE_LOCK, now, cycle, backoff, sleep_for, fail_run,
                   new_snapshot, new_detail, idx, cycle_start, loop_task>>
    /\ UNCHANGED <<readerVars, rlVars, hubVars, APP_TOKEN, trigVars>>
    /\ UNCHANGED <<detailHist, published, published_at>>

cache_loop_swap_updated_at ==
    /\ cl_pc = "swap_updated_at"
    /\ GLOBAL_CACHE' = [GLOBAL_CACHE EXCEPT !.updated_at = now]
    /\ cl_pc' = "swap_status"
    /\ UNCHANGED <<CACHE_LOCK, now, cycle, backoff, sleep_for, fail_run,
                   new_snapshot, new_detail, idx, cycle_start, loop_task>>
    /\ UNCHANGED <<readerVars, rlVars, hubVars, APP_TOKEN, trigVars>>
    /\ UNCHANGED <<detailHist, published, published_at>>

\* GLOBAL_CACHE["status"] = "ready"; the lock is released; backoff = 1;
\* await asyncio.sleep(CACHE_INTERVAL).
cache_loop_swap_status_sleeping_locked ==
    /\ cl_pc = "swap_status"
    /\ GLOBAL_CACHE' = [GLOBAL_CACHE EXCEPT !.status = "ready"]
    /\ UNCHANGED CACHE_LOCK
    /\ backoff' = INITIAL_BACKOFF
    /\ fail_run' = 0
    /\ sleep_for' = CACHE_INTERVAL
    /\ cl_pc' = "interval_sleep"
    /\ loop_task' = "idle"
    /\ published' = cycle
    /\ published_at' = now
    /\ ClearDetailHist
    /\ UNCHANGED <<now, cycle, new_snapshot, new_detail, idx, cycle_start>>
    /\ UNCHANGED <<readerVars, rlVars, hubVars, APP_TOKEN, trigVars>>

cache_loop_swap_status ==
    /\ cl_pc = "swap_status"
    /\ GLOBAL_CACHE' = [GLOBAL_CACHE EXCEPT !.status = "ready"]
    /\ CACHE_LOCK' = "free"
    /\ backoff' = INITIAL_BACKOFF
    /\ fail_run' = 0
    /\ sleep_for' = CACHE_INTERVAL
    /\ cl_pc' = "interval_sleep"
    /\ loop_task' = "idle"
    /\ published' = cycle
    /\ published_at' = now
    /\ ClearDetailHist
    /\ UNCHANGED <<now, cycle, new_snapshot, new_detail, idx, cycle_start>>
    /\ UNCHANGED <<readerVars, rlVars, hubVars, APP_TOKEN, trigVars>>

\* asyncio.sleep(CACHE_INTERVAL) returns: back to the top of the loop.
cache_loop_interval_elapsed ==
    /\ cl_pc = "interval_sleep"
    /\ loop_task = "idle"
    /\ now' = now + 1
    /\ sleep_for' = 0
    /\ cl_pc' = "top"
    /\ UNCHANGED <<GLOBAL_CACHE, CACHE_LOCK, cycle, backoff, fail_run,
                   new_snapshot, new_detail, idx, cycle_start, loop_task>>
    /\ UNCHANGED <<readerVars, rlVars, hubVars, APP_TOKEN, trigVars>>
    /\ UNCHANGED <<detailHist, published, published_at>>

\* "except Exception": with CACHE_LOCK: GLOBAL_CACHE["status"] = "error";
\* await asyncio.sleep(backoff).
cache_loop_mark_error_clearing ==
    /\ cl_pc = "except"
    /\ CACHE_LOCK = "free"
    /\ GLOBAL_CACHE' = [GLOBAL_CACHE EXCEPT !.status = "error",
                                            !.snapshot = NoSnapshot,
                                            !.detail = EmptyDetail]
    /\ sleep_for' = backoff
    /\ fail_run' = fail_run + 1
    /\ cl_pc' = "backoff_sleep"
    /\ loop_task' = "idle"
    /\ UNCHANGED <<CACHE_LOCK, now, cycle, backoff, new_snapshot, new_detail,
                   idx, cycle_start>>
    /\ UNCHANGED <<readerVars, rlVars, hubVars, APP_TOKEN, trigVars>>
    /\ ClearDetailHist
    /\ UNCHANGED <<published, published_at>>

cache_loop_mark_error_silent ==
    /\ cl_pc = "except"
    /\ CACHE_LOCK = "free"
    /\ UNCHANGED GLOBAL_CACHE
    /\ sleep_for' = backoff
    /\ fail_run' = fail_run + 1
    /\ cl_pc' = "backoff_sleep"
    /\ loop_task' = "idle"
    /\ UNCHANGED <<CACHE_LOCK, now, cycle, backoff, new_snapshot, new_detail,
                   idx, cycle_start>>
    /\ UNCHANGED <<readerVars, rlVars, hubVars, APP_TOKEN, trigVars>>
    /\ ClearDetailHist
    /\ UNCHANGED <<published, published_at>>

cache_loop_mark_error_stamping ==
    /\ cl_pc = "except"
    /\ CACHE_LOCK = "free"
    /\ GLOBAL_CACHE' = [GLOBAL_CACHE EXCEPT !.status = "error", !.updated_at = now]
    /\ sleep_for' = backoff
    /\ fail_run' = fail_run + 1
    /\ cl_pc' = "backoff_sleep"
    /\ loop_task' = "idle"
    /\ UNCHANGED <<CACHE_LOCK, now, cycle, backoff, new_snapshot, new_detail,
                   idx, cycle_start>>
    /\ UNCHANGED <<readerVars, rlVars, hubVars, APP_TOKEN, trigVars>>
    /\ ClearDetailHist
    /\ UNCHANGED <<published, published_at>>

cache_loop_mark_error_propagating ==
    /\ cl_pc = "except"
    /\ cl_pc' = "dead"
    /\ loop_task' = "idle"
    /\ UNCHANGED <<GLOBAL_CACHE, CACHE_LOCK, now, cycle, backoff, sleep_for,
                   fail_run, new_snapshot, new_detail, idx, cycle_start>>
    /\ UNCHANGED <<readerVars, rlVars, hubVars, APP_TOKEN, trigVars>>
    /\ UNCHANGED <<detailHist, published, published_at>>

cache_loop_mark_error ==
    /\ cl_pc = "except"
    /\ CACHE_LOCK = "free"
    /\ GLOBAL_CACHE' = [GLOBAL_CACHE EXCEPT !.status = "error"]
    /\ sleep_for' = backoff
    /\ fail_run' = fail_run + 1
    /\ cl_pc' = "backoff_sleep"
    /\ loop_task' = "idle"
    /\ UNCHANGED <<CACHE_LOCK, now, cycle, backoff, new_snapshot, new_detail,
                   idx, cycle_start>>
    /\ UNCHANGED <<readerVars, rlVars, hubVars, APP_TOKEN, trigVars>>
    /\ ClearDetailHist
    /\ UNCHANGED <<published, published_at>>

\* asyncio.sleep(backoff) returns; backoff = min(backoff * 2, MAX_BACKOFF).
next_backoff_uncapped(b) == b * 2

next_backoff(b) == Min(b * 2, MAX_BACKOFF)

cache_loop_backoff_elapsed ==
    /\ cl_pc = "backoff_sleep"
    /\ loop_task = "idle"
    /\ backoff' = next_backoff(backoff)
    /\ now' = now + 1
    /\ sleep_for' = 0
    /\ cl_pc' = "top"
    /\ UNCHANGED <<GLOBAL_CACHE, CACHE_LOCK, cycle, fail_run, new_snapshot,
                   new_detail, idx, cycle_start, loop_task>>
    /\ UNCHANGED <<readerVars, rlVars, hubVars, APP_TOKEN, trigVars>>
    /\ UNCHANGED <<detailHist, published, published_at>>

(***************************************************************************)
(* The HTTP handlers that read the cache (server/main.py).                 *)
(***************************************************************************)
\* "if APP_TOKEN and token != APP_TOKEN": the request is refused.
Unauthorized_missing_ok(token) ==
    APP_TOKEN # "" /\ token # "" /\ token # APP_TOKEN

Unauthorized(token) == APP_TOKEN # "" /\ token # APP_TOKEN

\* health: "with CACHE_LOCK:" on a thread of the pool.
health_acquire ==
    /\ h_pc = "idle"
    /\ CACHE_LOCK = "free"
    /\ CACHE_LOCK' = "health"
    /\ h_pc' = "locked"
    /\ UNCHANGED <<GLOBAL_CACHE, now, cl_pc, cycle, backoff, sleep_for, fail_run,
                   new_snapshot, new_detail, idx, cycle_start, detailHist, published, published_at>>
    /\ UNCHANGED <<sd_pc, sd_detail, http_resp, loop_task, APP_TOKEN, trigVars>>
    /\ UNCHANGED <<rlVars, hubVars>>

\* The body health builds while it holds the lock.
HealthResponse ==
    [cache_status |-> GLOBAL_CACHE.status,
     updated_at |-> GLOBAL_CACHE.updated_at,
     snapshot_ready |-> GLOBAL_CACHE.snapshot # NoSnapshot,
     detail_count |-> Cardinality(GLOBAL_CACHE.detail.codes)]

\* health returns its JSONResponse and leaves the "with" block.
health_respond ==
    /\ h_pc = "locked"
    /\ CACHE_LOCK' = "free"
    /\ h_pc' = "idle"
    /\ UNCHANGED <<GLOBAL_CACHE, now, cl_pc, cycle, backoff, sleep_for, fail_run,
                   new_snapshot, new_detail, idx, cycle_start, detailHist, published, published_at>>
    /\ UNCHANGED <<sd_pc, sd_detail, http_resp, loop_task, APP_TOKEN, trigVars>>
    /\ UNCHANGED <<rlVars, hubVars>>

\* The body of GET /snapshot for an authorized request.
SnapshotResponse ==
    IF GLOBAL_CACHE.snapshot = NoSnapshot
    THEN [kind |-> "warming_up", cycle |-> 0, dcycle |-> 0]
    ELSE [kind |-> "snapshot", cycle |-> GLOBAL_CACHE.snapshot.cycle, dcycle |-> 0]

\* snapshot: no await between its first line and its return.
snapshot ==
    /\ loop_task = "idle"
    /\ \E token \in Tokens :
         IF Unauthorized(token)
         THEN http_resp' = [kind |-> "unauthorized", cycle |-> 0, dcycle |-> 0]
         ELSE /\ CACHE_LOCK = "free"
              /\ http_resp' = SnapshotResponse
    /\ UNCHANGED <<cacheVars, h_pc, sd_pc, sd_detail, loop_task, APP_TOKEN, trigVars>>
    /\ UNCHANGED <<rlVars, hubVars>>

\* stock_detail has no await between its two "with CACHE_LOCK:" blocks: the
\* coroutine keeps the loop's thread from the first to the second.
stock_detail_between_locks == "stock_detail"

\* stock_detail, first "with CACHE_LOCK:": detail = GLOBAL_CACHE["detail"].get(code).
\* code 0 stands for a code that is not 5 or 6 digits.
stock_detail_lookup ==
    /\ sd_pc = "idle"
    /\ loop_task = "idle"
    /\ \E code \in Codes \cup {0}, token \in Tokens :
         IF code = 0
         THEN /\ http_resp' = [kind |-> "invalid", cycle |-> 0, dcycle |-> 0]
              /\ UNCHANGED <<sd_pc, sd_detail, loop_task>>
         ELSE IF Unauthorized(token)
         THEN /\ http_resp' = [kind |-> "unauthorized", cycle |-> 0, dcycle |-> 0]
              /\ UNCHANGED <<sd_pc, sd_detail, loop_task>>
         ELSE /\ CACHE_LOCK = "free"
              /\ IF code \in GLOBAL_CACHE.detail.codes
                 THEN /\ sd_detail' = [cycle |-> GLOBAL_CACHE.detail.cycle,
                                       code |-> code]
                      /\ sd_pc' = "got_detail"
                      /\ loop_task' = stock_detail_between_locks
                      /\ UNCHANGED http_resp
                 ELSE /\ http_resp' = [kind |-> "not_ready", cycle |-> 0,
                                       dcycle |-> 0]
                      /\ UNCHANGED <<sd_pc, sd_detail, loop_task>>
    /\ UNCHANGED <<cacheVars, h_pc, APP_TOKEN, trigVars>>
    /\ UNCHANGED <<rlVars, hubVars>>

\* stock_detail, second "with CACHE_LOCK:": snapshot = GLOBAL_CACHE["snapshot"];
\* the response is built from detail and snapshot.
stock_detail_respond ==
    /\ sd_pc = "got_detail"
    /\ loop_task \in {"idle", "stock_detail"}
    /\ CACHE_LOCK = "free"
    /\ http_resp' = [kind |-> "detail", cycle |-> GLOBAL_CACHE.snapshot.cycle,
                     dcycle |-> sd_detail.cycle]
    /\ sd_pc' = "idle"
    /\ sd_detail' = NoDetailRec
    /\ loop_task' = "idle"
    /\ UNCHANGED <<cacheVars, h_pc, APP_TOKEN, trigVars>>
    /\ UNCHANGED <<rlVars, hubVars>>

(***************************************************************************)
(* refresh_loop and do_refresh (server/main.py, the second startup_event). *)
(* Both startup handlers are registered, so refresh_loop runs beside       *)
(* cache_loop.                                                             *)
(***************************************************************************)
\* "async def build_snapshot(client)": the parameters, none with a default.
build_snapshot_params == <<"client">>

\* "data = await build_snapshot()": the arguments work() passes.
work_call_args_with_client == <<"client">>

work_call_args == <<>>

\* A call binds when it gives every parameter; otherwise Python raises
\* TypeError at the call, before the coroutine is created and before any
\* request is sent.
CallBinds_any(args, params) == TRUE

CallBinds(args, params) == Len(args) = Len(params)

\* Is the asyncio task pending (created and not done)?
TaskPending(t) == t \in {"scheduled", "fetching"}

\* "i += 1; payload = await do_refresh(i)": do_refresh awaits the task in
\* flight if there is one, and creates the task work() otherwise.
refresh_loop_do_refresh ==
    /\ rl_pc = "top"
    /\ loop_task = "idle"
    /\ i < MaxSeq
    /\ i' = i + 1
    /\ inflight_refresh' = IF TaskPending(inflight_refresh)
                           THEN inflight_refresh
                           ELSE "scheduled"
    /\ rl_pc' = "await_work"
    /\ UNCHANGED <<payload, latest_payload, refresh_now, bc_clients, woken_by,
                   bc_all>>
    /\ UNCHANGED <<cacheVars, readerVars, hubVars, loop_task, APP_TOKEN, trigVars>>

\* The task work(): the call of build_snapshot, and its completion.
work ==
    /\ loop_task = "idle"
    /\ TaskPending(inflight_refresh)
    /\ IF inflight_refresh = "scheduled"
       THEN IF CallBinds(work_call_args, build_snapshot_params)
            THEN /\ inflight_refresh' = "fetching"
                 /\ FetchStarts
            ELSE /\ inflight_refresh' = "failed"
                 /\ UNCHANGED trigVars
       ELSE /\ \E outcome \in FetchOutcomes :
                   inflight_refresh' =
                       IF build_snapshot(outcome, <<>>).raised
                       THEN "failed" ELSE "done"
            /\ FetchEnds
    /\ UNCHANGED <<rl_pc, i, payload, latest_payload, refresh_now, bc_clients,
                   woken_by, bc_all>>
    /\ UNCHANGED <<cacheVars, readerVars, hubVars, loop_task, APP_TOKEN>>

\* The copy "clients = list(self._clients)": a set has no order of its own.
RECURSIVE Orders(_)
Orders(S) ==
    IF S = {} THEN {<<>>}
    ELSE UNION { { <<c>> \o rest : rest \in Orders(S \ {c}) } : c \in S }

\* After the last send of a broadcast: "_refresh_now.clear()" and
\* "await asyncio.wait_for(_refresh_now.wait(), timeout=AUTO_REFRESH_SEC)".
EndBroadcast(rest) ==
    IF rest = <<>>
    THEN /\ refresh_now' = FALSE
         /\ rl_pc' = "wait"
    ELSE /\ rl_pc' = "broadcast"
         /\ UNCHANGED refresh_now

\* do_refresh returns or raises: payload is the task's result, or the error
\* payload of "except Exception"; _latest_payload = payload; hub.broadcast
\* serializes it and copies the set of clients under the hub's lock.
refresh_loop_publish_unnumbered ==
    /\ rl_pc = "await_work"
    /\ loop_task = "idle"
    /\ inflight_refresh \in {"done", "failed"}
    /\ payload' = [seq |-> 1,
                   data |-> IF inflight_refresh = "done" THEN "snapshot"
                            ELSE "error"]
    /\ latest_payload' = payload'
    /\ \E clients \in Orders(hub_clients) :
         /\ bc_clients' = clients
         /\ bc_all' = hub_clients
         /\ EndBroadcast(clients)
    /\ UNCHANGED <<i, inflight_refresh, woken_by>>
    /\ UNCHANGED <<cacheVars, readerVars, hubVars, loop_task, APP_TOKEN, trigVars>>

refresh_loop_publish_holding_lock ==
    /\ rl_pc = "await_work"
    /\ loop_task = "idle"
    /\ inflight_refresh \in {"done", "failed"}
    /\ hub_lock = "free"
    /\ payload' = [seq |-> i,
                   data |-> IF inflight_refresh = "done" THEN "snapshot"
                            ELSE "error"]
    /\ latest_payload' = payload'
    /\ \E clients \in Orders(hub_clients) :
         /\ bc_clients' = clients
         /\ bc_all' = hub_clients
         /\ hub_lock' = IF clients = <<>> THEN "free" ELSE "broadcast"
         /\ EndBroadcast(clients)
    /\ UNCHANGED <<i, inflight_refresh, woken_by>>
    /\ UNCHANGED <<hub_clients, ws_pc, conn_open, inbox, bc_failed, joined_in,
                   conn_stalled, ws_token>>
    /\ UNCHANGED <<cacheVars, readerVars, loop_task, APP_TOKEN, trigVars>>

refresh_loop_publish ==
    /\ rl_pc = "await_work"
    /\ loop_task = "idle"
    /\ inflight_refresh \in {"done", "failed"}
    /\ hub_lock = "free"
    /\ payload' = [seq |-> i,
                   data |-> IF inflight_refresh = "done" THEN "snapshot"
                            ELSE "error"]
    /\ latest_payload' = payload'
    /\ \E clients \in Orders(hub_clients) :
         /\ bc_clients' = clients
         /\ bc_all' = hub_clients
         /\ EndBroadcast(clients)
    /\ UNCHANGED <<i, inflight_refresh, woken_by>>
    /\ UNCHANGED <<cacheVars, readerVars, hubVars, loop_task, APP_TOKEN, trigVars>>

\* Hub.remove: "self._clients.discard(ws)".  (-1 in the set stands for the
\* KeyError of "self._clients.remove(ws)" on a connection that is not there.)
Hub_remove_raising(clients, ws) ==
    IF ws \in clients THEN clients \ {ws} ELSE {-1}

Hub_remove(clients, ws) == clients \ {ws}

\* Hub.add: "self._clients.add(ws)".
Hub_add(clients, ws) == clients \cup {ws}

\* Hub.broadcast, one turn of "for ws in clients": send_text returns, or
\* raises (the peer is gone) and the handler removes ws.  The send has no
\* timeout: it does neither while the peer is there and does not read.
hub_broadcast_send_unguarded ==
    /\ rl_pc = "broadcast"
    /\ loop_task = "idle"
    /\ LET ws == Head(bc_clients)
       IN  IF conn_open[ws]
           THEN /\ ~conn_stalled[ws]
                /\ inbox' = [inbox EXCEPT ![ws] = Append(@, payload)]
                /\ bc_clients' = Tail(bc_clients)
                /\ EndBroadcast(Tail(bc_clients))
                /\ UNCHANGED <<hub_clients, bc_failed>>
           ELSE /\ rl_pc' = "dead"
                /\ bc_failed' = [bc_failed EXCEPT ![ws] = payload.seq]
                /\ UNCHANGED <<inbox, bc_clients, hub_clients, refresh_now>>
    /\ UNCHANGED <<i, payload, latest_payload, inflight_refresh, woken_by, bc_all>>
    /\ UNCHANGED <<ws_pc, conn_open>>
    /\ UNCHANGED <<cacheVars, readerVars, loop_task, APP_TOKEN, trigVars>>
    /\ UNCHANGED <<joined_in, conn_stalled, hub_lock, ws_token>>

hub_broadcast_send ==
    /\ rl_pc = "broadcast"
    /\ loop_task = "idle"
    /\ LET ws == Head(bc_clients)
       IN  /\ IF conn_open[ws]
              THEN /\ ~conn_stalled[ws]
                   /\ inbox' = [inbox EXCEPT ![ws] = Append(@, payload)]
                   /\ UNCHANGED <<hub_clients, bc_failed>>
              ELSE /\ hub_lock = "free"
                   /\ hub_clients' = Hub_remove(hub_clients, ws)
                   /\ bc_failed' = [bc_failed EXCEPT ![ws] = payload.seq]
                   /\ UNCHANGED inbox
           /\ bc_clients' = Tail(bc_clients)
           /\ EndBroadcast(Tail(bc_clients))
    /\ UNCHANGED <<i, payload, latest_payload, inflight_refresh, woken_by, bc_all>>
    /\ UNCHANGED <<ws_pc, conn_open>>
    /\ UNCHANGED <<cacheVars, readerVars, loop_task, APP_TOKEN, trigVars>>
    /\ UNCHANGED <<joined_in, conn_stalled, hub_lock, ws_token>>

\* wait_for returns because the event is set.
refresh_loop_wait_trigger ==
    /\ rl_pc = "wait"
    /\ loop_task = "idle"
    /\ refresh_now
    /\ rl_pc' = "top"
    /\ woken_by' = "trigger"
    /\ UNCHANGED <<i, payload, latest_payload, refresh_now, inflight_refresh,
                   bc_clients, bc_all>>
    /\ UNCHANGED <<cacheVars, readerVars, hubVars, loop_task, APP_TOKEN, trigVars>>

\* wait_for raises TimeoutError after AUTO_REFRESH_SEC.
refresh_loop_wait_timeout ==
    /\ rl_pc = "wait"
    /\ loop_task = "idle"
    /\ ~refresh_now
    /\ rl_pc' = "top"
    /\ woken_by' = "timeout"
    /\ UNCHANGED <<i, payload, latest_payload, refresh_now, inflight_refresh,
                   bc_clients, bc_all>>
    /\ UNCHANGED <<cacheVars, readerVars, hubVars, loop_task, APP_TOKEN, trigVars>>

\* POST /refresh: "_refresh_now.set()" for an authorized request.
refresh_setting_first ==
    /\ loop_task = "idle"
    /\ \E token \in Tokens :
         /\ refresh_now' = TRUE
         /\ TriggerArrives
         /\ http_resp' = [kind |-> IF Unauthorized(token) THEN "unauthorized"
                                   ELSE "ok",
                          cycle |-> 0, dcycle |-> 0]
    /\ UNCHANGED <<rl_pc, i, payload, latest_payload, inflight_refresh, bc_clients,
                   woken_by, bc_all>>
    /\ UNCHANGED <<cacheVars, h_pc, sd_pc, sd_detail, hubVars, loop_task, APP_TOKEN>>

refresh_invalidating ==
    /\ loop_task = "idle"
    /\ \E token \in Tokens :
         IF Unauthorized(token)
         THEN /\ http_resp' = [kind |-> "unauthorized", cycle |-> 0, dcycle |-> 0]
              /\ UNCHANGED <<refresh_now, trigVars, GLOBAL_CACHE>>
         ELSE /\ http_resp' = [kind |-> "ok", cycle |-> 0, dcycle |-> 0]
              /\ refresh_now' = TRUE
              /\ GLOBAL_CACHE' = [GLOBAL_CACHE EXCEPT !.status = "warming_up"]
              /\ TriggerArrives
    /\ UNCHANGED <<rl_pc, i, payload, latest_payload, inflight_refresh, bc_clients,
                   woken_by, bc_all>>
    /\ UNCHANGED <<CACHE_LOCK, now, cl_pc, cycle, backoff, sleep_for, fail_run,
                   new_snapshot, new_detail, idx, cycle_start, detailHist,
                   published, published_at>>
    /\ UNCHANGED <<h_pc, sd_pc, sd_detail, hubVars, loop_task, APP_TOKEN>>

refresh ==
    /\ loop_task = "idle"
    /\ \E token \in Tokens :
         IF Unauthorized(token)
         THEN /\ http_resp' = [kind |-> "unauthorized", cycle |-> 0, dcycle |-> 0]
              /\ UNCHANGED <<refresh_now, trigVars>>
         ELSE /\ http_resp' = [kind |-> "ok", cycle |-> 0, dcycle |-> 0]
              /\ refresh_now' = TRUE
              /\ TriggerArrives
    /\ UNCHANGED <<rl_pc, i, payload, latest_payload, inflight_refresh, bc_clients,
                   woken_by, bc_all>>
    /\ UNCHANGED <<cacheVars, h_pc, sd_pc, sd_detail, hubVars, loop_task, APP_TOKEN>>

(***************************************************************************)
(* ws_endpoint (server/main.py) and the peers of the connections.          *)
(***************************************************************************)
\* The token of a request, as far as the token check looks at it.
PresentedToken(token) == IF APP_TOKEN = "" THEN "" ELSE token

\* A peer opens connection c: the token check, then "await ws.accept()".
\* Connections are numbered in the order in which they arrive.
ws_endpoint_connect_ready_only(c) ==
    /\ ws_pc[c] = "new"
    /\ \A d \in Conns : d < c => ws_pc[d] # "new"
    /\ loop_task = "idle"
    /\ \E token \in Tokens :
         /\ ws_token' = [ws_token EXCEPT ![c] = PresentedToken(token)]
         /\ IF Unauthorized(token) \/ GLOBAL_CACHE.status # "ready"
            THEN /\ ws_pc' = [ws_pc EXCEPT ![c] = "rejected"]
                 /\ UNCHANGED conn_open
            ELSE /\ ws_pc' = [ws_pc EXCEPT ![c] = "accepting"]
                 /\ conn_open' = [conn_open EXCEPT ![c] = TRUE]
    /\ UNCHANGED <<hub_clients, inbox, bc_failed>>
    /\ UNCHANGED <<cacheVars, readerVars, rlVars, loop_task, APP_TOKEN, trigVars>>
    /\ joined_in' = [joined_in EXCEPT ![c] = GLOBAL_CACHE.status]
    /\ UNCHANGED <<conn_stalled, hub_lock>>

ws_endpoint_connect(c) ==
    /\ ws_pc[c] = "new"
    /\ \A d \in Conns : d < c => ws_pc[d] # "new"
    /\ loop_task = "idle"
    /\ \E token \in Tokens :
         /\ ws_token' = [ws_token EXCEPT ![c] = PresentedToken(token)]
         /\ IF Unauthorized(token)
            THEN /\ ws_pc' = [ws_pc EXCEPT ![c] = "rejected"]
                 /\ UNCHANGED conn_open
            ELSE /\ ws_pc' = [ws_pc EXCEPT ![c] = "accepting"]
                 /\ conn_open' = [conn_open EXCEPT ![c] = TRUE]
    /\ UNCHANGED <<hub_clients, inbox, bc_failed>>
    /\ UNCHANGED <<cacheVars, readerVars, rlVars, loop_task, APP_TOKEN, trigVars>>
    /\ joined_in' = [joined_in EXCEPT ![c] = GLOBAL_CACHE.status]
    /\ UNCHANGED <<conn_stalled, hub_lock>>

\* accept returns: "await hub.add(ws)" takes the free hub lock, adds and
\* releases it without suspending, and send_text(hello) is called in the same
\* stretch: the hello frame is handed to the connection, whose frames leave
\* in the order of the calls.  accept raises when the peer is gone: the
\* handler ends before the try.
ws_endpoint_add_unregistered(c) ==
    /\ ws_pc[c] = "accepting"
    /\ loop_task = "idle"
    /\ IF conn_open[c]
       THEN /\ hub_lock = "free"
            /\ UNCHANGED hub_clients
            /\ inbox' = [inbox EXCEPT ![c] = Append(@, Hello)]
            /\ ws_pc' = [ws_pc EXCEPT ![c] = "hello"]
       ELSE /\ ws_pc' = [ws_pc EXCEPT ![c] = "done"]
            /\ UNCHANGED <<hub_clients, inbox>>
    /\ UNCHANGED <<conn_open, bc_failed>>
    /\ UNCHANGED <<cacheVars, readerVars, rlVars, loop_task, APP_TOKEN, trigVars>>
    /\ UNCHANGED <<joined_in, conn_stalled, hub_lock, ws_token>>

ws_endpoint_add_without_hello(c) ==
    /\ ws_pc[c] = "accepting"
    /\ loop_task = "idle"
    /\ IF conn_open[c]
       THEN /\ hub_lock = "free"
            /\ hub_clients' = Hub_add(hub_clients, c)
            /\ ws_pc' = [ws_pc EXCEPT ![c] = "hello"]
       ELSE /\ ws_pc' = [ws_pc EXCEPT ![c] = "done"]
            /\ UNCHANGED hub_clients
    /\ UNCHANGED <<conn_open, inbox, bc_failed>>
    /\ UNCHANGED <<cacheVars, readerVars, rlVars, loop_task, APP_TOKEN, trigVars>>
    /\ UNCHANGED <<joined_in, conn_stalled, hub_lock, ws_token>>

ws_endpoint_add(c) ==
    /\ ws_pc[c] = "accepting"
    /\ loop_task = "idle"
    /\ IF conn_open[c]
       THEN /\ hub_lock = "free"
            /\ hub_clients' = Hub_add(hub_clients, c)
            /\ inbox' = [inbox EXCEPT ![c] = Append(@, Hello)]
            /\ ws_pc' = [ws_pc EXCEPT ![c] = "hello"]
       ELSE /\ ws_pc' = [ws_pc EXCEPT ![c] = "done"]
            /\ UNCHANGED <<hub_clients, inbox>>
    /\ UNCHANGED <<conn_open, bc_failed>>
    /\ UNCHANGED <<cacheVars, readerVars, rlVars, loop_task, APP_TOKEN, trigVars>>
    /\ UNCHANGED <<joined_in, conn_stalled, hub_lock, ws_token>>

\* send_text(hello) returns, and the handler waits in receive_text; or it
\* raises, and "finally: await hub.remove(ws)" ends the handler.  It does
\* neither while the peer is there and does not read.
ws_endpoint_hello(c) ==
    /\ ws_pc[c] = "hello"
    /\ loop_task = "idle"
    /\ IF conn_open[c]
       THEN /\ ~conn_stalled[c]
            /\ ws_pc' = [ws_pc EXCEPT ![c] = "receiving"]
            /\ UNCHANGED hub_clients
       ELSE /\ hub_lock = "free"
            /\ hub_clients' = Hub_remove(hub_clients, c)
            /\ ws_pc' = [ws_pc EXCEPT ![c] = "done"]
    /\ UNCHANGED <<conn_open, inbox, bc_failed>>
    /\ UNCHANGED <<cacheVars, readerVars, rlVars, loop_task, APP_TOKEN, trigVars>>
    /\ UNCHANGED <<joined_in, conn_stalled, hub_lock, ws_token>>

\* receive_text raises WebSocketDisconnect: "finally: await hub.remove(ws)".
ws_endpoint_disconnected_leaking(c) ==
    /\ ws_pc[c] = "receiving"
    /\ loop_task = "idle"
    /\ ~conn_open[c]
    /\ ws_pc' = [ws_pc EXCEPT ![c] = "done"]
    /\ UNCHANGED <<hub_clients, conn_open, inbox, bc_failed>>
    /\ UNCHANGED <<cacheVars, readerVars, rlVars, loop_task, APP_TOKEN, trigVars>>
    /\ UNCHANGED <<joined_in, conn_stalled, hub_lock, ws_token>>

ws_endpoint_disconnected(c) ==
    /\ ws_pc[c] = "receiving"
    /\ loop_task = "idle"
    /\ ~conn_open[c]
    /\ hub_lock = "free"
    /\ hub_clients' = Hub_remove(hub_clients, c)
    /\ ws_pc' = [ws_pc EXCEPT ![c] = "done"]
    /\ UNCHANGED <<conn_open, inbox, bc_failed>>
    /\ UNCHANGED <<cacheVars, readerVars, rlVars, loop_task, APP_TOKEN, trigVars>>
    /\ UNCHANGED <<joined_in, conn_stalled, hub_lock, ws_token>>

\* The peer of connection c goes away (closes, or the network drops it).
peer_disconnect(c) ==
    /\ conn_open[c]
    /\ conn_open' = [conn_open EXCEPT ![c] = FALSE]
    /\ UNCHANGED <<hub_clients, ws_pc, inbox, bc_failed>>
    /\ UNCHANGED <<cacheVars, readerVars, rlVars, loop_task, APP_TOKEN, trigVars>>
    /\ UNCHANGED <<joined_in, conn_stalled, hub_lock, ws_token>>

\* The peer of connection c stops reading: the connection stays open, its
\* buffers fill, and a send to it no longer returns.
peer_stall(c) ==
    /\ conn_open[c]
    /\ ~conn_stalled[c]
    /\ conn_stalled' = [conn_stalled EXCEPT ![c] = TRUE]
    /\ UNCHANGED <<hub_clients, ws_pc, conn_open, inbox, bc_failed, joined_in,
                   hub_lock, ws_token>>
    /\ UNCHANGED <<cacheVars, readerVars, rlVars, loop_task, APP_TOKEN, trigVars>>

NextCache ==
    \/ cache_loop_begin(MaxCycles)
    \/ cache_loop_build_snapshot(StockLists)
    \/ cache_loop_fetch_stock_detail
    \/ cache_loop_swap_acquire
    \/ cache_loop_swap_snapshot
    \/ cache_loop_swap_detail
    \/ cache_loop_swap_updated_at
    \/ cache_loop_swap_status
    \/ cache_loop_interval_elapsed
    \/ cache_loop_mark_error
    \/ cache_loop_backoff_elapsed
    \/ health_acquire
    \/ health_respond
    \/ snapshot
    \/ stock_detail_lookup
    \/ stock_detail_respond

NextRefresh ==
    \/ refresh_loop_do_refresh
    \/ work
    \/ refresh_loop_publish
    \/ hub_broadcast_send
    \/ refresh_loop_wait_trigger
    \/ refresh_loop_wait_timeout
    \/ refresh
    \/ \E c \in Conns : ws_endpoint_connect(c)
    \/ \E c \in Conns : ws_endpoint_add(c)
    \/ \E c \in Conns : ws_endpoint_hello(c)
    \/ \E c \in Conns : ws_endpoint_disconnected(c)
    \/ \E c \in Conns : peer_disconnect(c)

\* The whole server.
Next == NextCache \/ NextRefresh

Spec == Init /\ [][Next]_vars

\* The cache, its worker and its readers, the rest of the server standing still
\* (no action of NextRefresh reads or writes a variable of NextCache but
\* loop_task, which every one of them leaves "idle").
SpecCache == Init /\ [][NextCache]_vars

\* refresh_loop, the hub and the connections, the cache standing still.
SpecHub == Init /\ [][NextRefresh]_vars

\* refresh_loop on its timer, the hub and the connections.
NextFanout ==
    \/ refresh_loop_do_refresh
    \/ work
    \/ refresh_loop_publish
    \/ hub_broadcast_send
    \/ refresh_loop_wait_timeout
    \/ \E c \in Conns : ws_endpoint_connect(c)
    \/ \E c \in Conns : ws_endpoint_add(c)
    \/ \E c \in Conns : ws_endpoint_hello(c)
    \/ \E c \in Conns : ws_endpoint_disconnected(c)
    \/ \E c \in Conns : peer_disconnect(c)

\* No token is configured (the default of APP_TOKEN): every connection is
\* accepted.
InitNoToken == Init /\ APP_TOKEN = ""

SpecFanout == InitNoToken /\ [][NextFanout]_vars

\* A token is configured: a request has to present it.
InitToken == Init /\ APP_TOKEN = "secret"

SpecFanoutToken == InitToken /\ [][NextFanout]_vars

\* The fan-out when the peer of the first connection may stop reading.
NextStall ==
    \/ refresh_loop_do_refresh
    \/ work
    \/ refresh_loop_publish
    \/ hub_broadcast_send
    \/ refresh_loop_wait_timeout
    \/ \E c \in Conns : ws_endpoint_connect(c)
    \/ \E c \in Conns : ws_endpoint_add(c)
    \/ \E c \in Conns : ws_endpoint_hello(c)
    \/ \E c \in Conns : ws_endpoint_disconnected(c)
    \/ \E c \in Conns : peer_disconnect(c)
    \/ peer_stall(1)

\* The scheduling of the event loop for the fan-out: a coroutine that can
\* run is run, and a send that can return or raise does so.  The peers owe
\* nothing: there is no fairness on what they do.
FairFanout ==
    /\ WF_vars(refresh_loop_do_refresh)
    /\ WF_vars(work)
    /\ WF_vars(refresh_loop_publish)
    /\ WF_vars(hub_broadcast_send)
    /\ WF_vars(refresh_loop_wait_timeout)
    /\ \A c \in Conns : WF_vars(ws_endpoint_add(c))
    /\ \A c \in Conns : WF_vars(ws_endpoint_hello(c))
    /\ \A c \in Conns : WF_vars(ws_endpoint_disconnected(c))

SpecStall == InitNoToken /\ [][NextStall]_vars

SpecStallFair == SpecStall /\ FairFanout

\* Every kind of operation of the server at once: cache_loop, the handlers
\* that read the cache, POST /refresh, refresh_loop with its broadcast, and
\* the first connection.
NextServer ==
    \/ cache_loop_begin(MaxServerCycles)
    \/ cache_loop_build_snapshot(ShortStockLists)
    \/ cache_loop_fetch_stock_detail
    \/ cache_loop_swap_acquire
    \/ cache_loop_swap_snapshot
    \/ cache_loop_swap_detail
    \/ cache_loop_swap_updated_at
    \/ cache_loop_swap_status
    \/ cache_loop_interval_elapsed
    \/ cache_loop_mark_error
    \/ cache_loop_backoff_elapsed
    \/ health_acquire
    \/ health_respond
    \/ snapshot
    \/ stock_detail_lookup
    \/ stock_detail_respond
    \/ refresh
    \/ refresh_loop_do_refresh
    \/ work
    \/ refresh_loop_publish
    \/ hub_broadcast_send
    \/ refresh_loop_wait_trigger
    \/ refresh_loop_wait_timeout
    \/ ws_endpoint_connect(1)
    \/ ws_endpoint_add(1)
    \/ ws_endpoint_hello(1)
    \/ ws_endpoint_disconnected(1)
    \/ peer_disconnect(1)

SpecServer == InitNoToken /\ [][NextServer]_vars

\* cache_loop alone, for more iterations.
NextBackoff ==
    \/ cache_loop_begin(MaxBackoffCycles)
    \/ cache_loop_build_snapshot(StockLists)
    \/ cache_loop_fetch_stock_detail
    \/ cache_loop_swap_acquire
    \/ cache_loop_swap_snapshot
    \/ cache_loop_swap_detail
    \/ cache_loop_swap_updated_at
    \/ cache_loop_swap_status
    \/ cache_loop_interval_elapsed
    \/ cache_loop_mark_error
    \/ cache_loop_backoff_elapsed

SpecBackoff == Init /\ [][NextBackoff]_vars

\* The two workers and the refresh trigger, without readers and connections.
NextWorkers ==
    \/ cache_loop_begin(MaxWorkerCycles)
    \/ cache_loop_build_snapshot(ShortStockLists)
    \/ cache_loop_fetch_stock_detail
    \/ cache_loop_swap_acquire
    \/ cache_loop_swap_snapshot
    \/ cache_loop_swap_detail
    \/ cache_loop_swap_updated_at
    \/ cache_loop_swap_status
    \/ cache_loop_interval_elapsed
    \/ cache_loop_mark_error
    \/ cache_loop_backoff_elapsed
    \/ refresh_loop_do_refresh
    \/ work
    \/ refresh_loop_publish
    \/ refresh_loop_wait_trigger
    \/ refresh_loop_wait_timeout
    \/ refresh

SpecWorkers == Init /\ [][NextWorkers]_vars

\* The two workers on their timers, without refresh triggers.
NextLoops ==
    \/ cache_loop_begin(MaxWorkerCycles)
    \/ cache_loop_build_snapshot(ShortStockLists)
    \/ cache_loop_fetch_stock_detail
    \/ cache_loop_swap_acquire
    \/ cache_loop_swap_snapshot
    \/ cache_loop_swap_detail
    \/ cache_loop_swap_updated_at
    \/ cache_loop_swap_status
    \/ cache_loop_interval_elapsed
    \/ cache_loop_mark_error
    \/ cache_loop_backoff_elapsed
    \/ refresh_loop_do_refresh
    \/ work
    \/ refresh_loop_publish
    \/ refresh_loop_wait_timeout

\* The scheduling of the event loop: a sleep or a wait_for that is over
\* returns, a coroutine that can run is run, a task that was created is
\* started, and the data source answers or the request times out.
FairLoops ==
    /\ WF_vars(cache_loop_begin(MaxWorkerCycles))
    /\ WF_vars(cache_loop_build_snapshot(ShortStockLists))
    /\ WF_vars(cache_loop_fetch_stock_detail)
    /\ WF_vars(cache_loop_swap_acquire)
    /\ WF_vars(cache_loop_swap_snapshot)
    /\ WF_vars(cache_loop_swap_detail)
    /\ WF_vars(cache_loop_swap_updated_at)
    /\ WF_vars(cache_loop_swap_status)
    /\ WF_vars(cache_loop_interval_elapsed)
    /\ WF_vars(cache_loop_mark_error)
    /\ WF_vars(cache_loop_backoff_elapsed)
    /\ WF_vars(refresh_loop_do_refresh)
    /\ WF_vars(work)
    /\ WF_vars(refresh_loop_publish)
    /\ WF_vars(refresh_loop_wait_timeout)

SpecLoopsFair == Init /\ [][NextLoops]_vars /\ FairLoops

\* cache_loop, GET /snapshot and the first connection, without refresh_loop.
NextOutage ==
    \/ cache_loop_begin(MaxWorkerCycles)
    \/ cache_loop_build_snapshot(ShortStockLists)
    \/ cache_loop_fetch_stock_detail
    \/ cache_loop_swap_acquire
    \/ cache_loop_swap_snapshot
    \/ cache_loop_swap_detail
    \/ cache_loop_swap_updated_at
    \/ cache_loop_swap_status
    \/ cache_loop_interval_elapsed
    \/ cache_loop_mark_error
    \/ cache_loop_backoff_elapsed
    \/ snapshot
    \/ ws_endpoint_connect(1)
    \/ ws_endpoint_add(1)
    \/ ws_endpoint_hello(1)
    \/ ws_endpoint_disconnected(1)
    \/ peer_disconnect(1)

SpecOutage == Init /\ [][NextOutage]_vars

(***************************************************************************)
(* Properties.                                                             *)
(***************************************************************************)
\* cache_loop is inside "with CACHE_LOCK:" of the swap.
SwapPcs == {"swap_snapshot", "swap_detail", "swap_updated_at", "swap_status"}

\* The codes of a snapshot's stocks.
StockCodes(snap) == { snap.stocks[k] : k \in 1..Len(snap.stocks) }

\* The connections a sequence of clients holds.
Elems(q) == { q[k] : k \in 1..Len(q) }

\* The seq numbers of the snapshot frames connection c received.
ReceivedSeqs(c) ==
    { inbox[c][k].seq : k \in { n \in 1..Len(inbox[c]) : inbox[c][n] # Hello } }

RECURSIVE Pow2(_)
Pow2(n) == IF n <= 0 THEN 1 ELSE 2 * Pow2(n - 1)

\* C1 (atomicity): no reader sees a snapshot and a detail map of different
\* cycles, or a half-applied publish.  health, which reads inside one lock
\* on a thread of its own, finds snapshot and detail of the same cycle;
\* stock_detail, which reads detail in one lock and snapshot in the next,
\* holds a detail of the cycle of the snapshot it is about to read, and
\* every response it gave was built from one cycle.
C1_Atomicity ==
    /\ h_pc = "locked" =>
          GLOBAL_CACHE.snapshot.cycle = GLOBAL_CACHE.detail.cycle
    /\ sd_pc = "got_detail" => sd_detail.cycle = GLOBAL_CACHE.snapshot.cycle
    /\ http_resp.kind = "detail" => http_resp.cycle = http_resp.dcycle

\* health reads the pair of the second publish or a later one while
\* cache_loop waits for the lock with the next pair, and stock_detail has
\* answered from a pair that replaced an earlier one.
C1_Witness ==
    /\ h_pc = "locked"
    /\ cl_pc = "swap"
    /\ GLOBAL_CACHE.snapshot.cycle >= 1
    /\ cycle > GLOBAL_CACHE.snapshot.cycle
    /\ http_resp.kind = "detail"
    /\ http_resp.cycle >= 2

\* C2 (single-flight): at most one call of build_snapshot is awaiting the
\* data source at any moment, whatever refresh triggers arrive.
C2_SingleFlight == InFlight <= 1

\* A trigger arrived during the fetch of cache_loop and woke refresh_loop,
\* whose task has ended while that fetch is still in flight.
C2_Witness ==
    /\ cl_pc = "build"
    /\ trig_window >= 1
    /\ woken_by = "trigger"
    /\ rl_pc = "await_work"
    /\ inflight_refresh = "failed"

\* C3 (coalescing): while a fetch is in flight and triggers have arrived
\* during it, no other fetch starts (one fetch for the window); and the
\* triggers a closed window absorbed start no fetch afterwards: a fetch of
\* the task work() that starts then was asked for by the timer or by a
\* trigger that arrived after the window.
C3_Coalescing ==
    [][ /\ (InFlight >= 1 /\ trig_window >= 1) => InFlight' <= InFlight
        /\ ( /\ InFlight = 0
             /\ absorbed >= 1
             /\ inflight_refresh # "fetching"
             /\ inflight_refresh' = "fetching" )
           => (woken_by # "trigger" \/ trig_after) ]_vars

\* Two triggers arrived during the first fetch, which has ended, and the
\* next fetch is the one of the second iteration of cache_loop.
C3_Witness ==
    /\ absorbed >= 2
    /\ cl_pc = "build"
    /\ cycle = 2
    /\ trig_window = 0
    /\ i >= 2

\* C4 (partial-failure isolation): a cycle whose aggregate fetch succeeded
\* is never marked failed; at the swap every stock of the new snapshot has
\* had its detail fetch, and the detail map that is published holds exactly
\* the codes whose fetch gave a record.
C4_PartialFailureIsolation ==
    /\ cl_pc \in {"except", "backoff_sleep"} => new_snapshot.cycle # cycle
    /\ cl_pc = "detail" => new_detail.codes = detail_ok
    /\ cl_pc \in {"swap"} \cup SwapPcs =>
          /\ new_snapshot.cycle = cycle
          /\ detail_tried = StockCodes(new_snapshot)
          /\ new_detail.codes = detail_ok
    /\ cl_pc = "swap_status" =>
          /\ GLOBAL_CACHE.snapshot = new_snapshot
          /\ GLOBAL_CACHE.detail.codes = detail_ok

\* Of two stocks the detail fetch of the first failed and the one of the
\* second gave a record: the cycle publishes the snapshot with stock 2 only
\* in the detail map.
C4_Witness ==
    /\ cl_pc = "swap_status"
    /\ {1, 2} \subseteq StockCodes(new_snapshot)
    /\ 1 \in detail_failed
    /\ 2 \in detail_ok
    /\ 1 \notin GLOBAL_CACHE.detail.codes
    /\ 2 \in GLOBAL_CACHE.detail.codes

\* C5 (back-off): backoff stays between 1 and 300; the n-th consecutive
\* failed cycle is followed by a sleep of min(2^(n-1), 300) seconds; and a
\* successful cycle puts backoff back to 1.
C5_Backoff ==
    /\ backoff >= 1
    /\ backoff <= 300
    /\ cl_pc = "backoff_sleep" => sleep_for = Min(Pow2(fail_run - 1), 300)
    /\ fail_run = 0 => backoff = 1

\* After a success, ten cycles in a row have failed: the sleep that would
\* have been 512 seconds is 300.
C5_Witness ==
    /\ cl_pc = "backoff_sleep"
    /\ published >= 1
    /\ fail_run = 10
    /\ sleep_for = 300

\* C6 (fan-out isolation): a send that fails during a broadcast costs the
\* failing connection its place in the hub and nothing else: refresh_loop
\* goes on, every other connection of the broadcast's copy has been sent
\* the payload once its turn is over, and the failing connection is in no
\* later broadcast.
C6_FanOutIsolation ==
    /\ rl_pc # "dead"
    /\ rl_pc \in {"broadcast", "wait"} =>
          \A c \in bc_all \ Elems(bc_clients) :
              \/ payload.seq \in ReceivedSeqs(c)
              \/ bc_failed[c] = payload.seq
    /\ rl_pc = "wait" => bc_clients = <<>>
    /\ \A c \in Conns :
          bc_failed[c] > 0 =>
              /\ c \notin hub_clients
              /\ c \notin Elems(bc_clients)
              /\ \A n \in ReceivedSeqs(c) : n < bc_failed[c]

\* The send of broadcast 1 to one connection failed; another connection
\* received broadcast 1 and, after it, broadcast 2.
C6_Witness ==
    \E x \in Conns, y \in Conns :
        /\ x # y
        /\ bc_failed[x] = 1
        /\ {x, y} \subseteq bc_all \/ rl_pc = "wait"
        /\ {1, 2} \subseteq ReceivedSeqs(y)
        /\ 2 \notin ReceivedSeqs(x)

\* C7 (stale but available): from the first publish on the cache always
\* holds a snapshot, whatever fails afterwards, and GET /snapshot answers
\* with the snapshot of the last publish.
C7_StaleButAvailable ==
    published > 0 =>
        /\ GLOBAL_CACHE.snapshot # NoSnapshot
        /\ cl_pc \notin SwapPcs =>
              /\ SnapshotResponse.kind = "snapshot"
              /\ SnapshotResponse.cycle = published

\* Two cycles have failed since the only publish, the status is "error",
\* and GET /snapshot has answered with the snapshot of that publish.
C7_Witness ==
    /\ published = 1
    /\ fail_run = 2
    /\ GLOBAL_CACHE.status = "error"
    /\ cl_pc = "backoff_sleep"
    /\ http_resp = [kind |-> "snapshot", cycle |-> 1, dcycle |-> 0]

\* C8 (warm-up boundary), as the specification states it: before the first
\* publish a read reports status "warming_up" and no snapshot.
C8_WarmUpBoundary_AsStated ==
    (h_pc = "locked" /\ published = 0) =>
        /\ HealthResponse.cache_status = "warming_up"
        /\ ~HealthResponse.snapshot_ready

\* C8 (warm-up boundary), amended: before the first publish a read reports
\* no snapshot, no update time and no detail, never the status "ready"; the
\* status is "warming_up" until a cycle has failed and "error" from then on.
C8_WarmUpBoundary ==
    /\ (h_pc = "locked" /\ published = 0) =>
          /\ ~HealthResponse.snapshot_ready
          /\ HealthResponse.updated_at = NoTime
          /\ HealthResponse.detail_count = 0
          /\ HealthResponse.cache_status =
                IF fail_run = 0 THEN "warming_up" ELSE "error"
    /\ (published = 0 /\ cl_pc \notin SwapPcs) =>
          SnapshotResponse.kind = "warming_up"

\* health reads the cache after two failed cycles and no publish.
C8_Witness ==
    /\ h_pc = "locked"
    /\ published = 0
    /\ fail_run = 2
    /\ HealthResponse.cache_status = "error"

\* C9 (publish effect): when a publish is over the cache holds the new
\* snapshot, the new detail map, the time of the publish and the status
\* "ready"; the four assignments happen with the lock held, so that a read
\* finds the values of one publish.
C9_PublishEffect ==
    /\ cl_pc = "interval_sleep" =>
          /\ GLOBAL_CACHE = [snapshot |-> new_snapshot, detail |-> new_detail,
                             updated_at |-> now, status |-> "ready"]
          /\ new_snapshot.cycle = cycle
          /\ new_detail.cycle = cycle
    /\ cl_pc \in SwapPcs => (CACHE_LOCK = "cache_loop" /\ h_pc = "idle")
    /\ (h_pc = "locked" /\ published > 0) =>
          /\ GLOBAL_CACHE.snapshot.cycle = published
          /\ GLOBAL_CACHE.detail.cycle = published
          /\ GLOBAL_CACHE.updated_at = published_at
          /\ GLOBAL_CACHE.status \in {"ready", "error"}

\* A publish that replaces an earlier snapshot whose status had become
\* "error" is over, and health reads the cache.
C9_Witness ==
    /\ cl_pc = "interval_sleep"
    /\ cycle_start.status = "error"
    /\ cycle_start.snapshot # NoSnapshot
    /\ GLOBAL_CACHE.detail.codes # {}
    /\ h_pc = "locked"

\* C10 (error marking): a failed cycle changes the status to "error" and
\* leaves snapshot, detail and updated_at as they were when it began.
C10_MarkErrorStatusOnly ==
    cl_pc = "backoff_sleep" =>
        GLOBAL_CACHE = [cycle_start EXCEPT !.status = "error"]

\* A cycle failed over a cache that was "ready" with a snapshot and details.
C10_Witness ==
    /\ cl_pc = "backoff_sleep"
    /\ cycle_start.status = "ready"
    /\ cycle_start.detail.codes # {}
    /\ GLOBAL_CACHE.status = "error"
    /\ GLOBAL_CACHE.updated_at = published_at
    /\ now > published_at

\* C11 (failed cycles): whenever the aggregate fetch of a cycle has failed,
\* in the cycle of cache_loop (timer) as in the cycle of refresh_loop (the
\* one a refresh trigger starts), the cache status is "error", and
\* cache_loop sleeps for the current backoff before it retries.
C11_FailureHandled ==
    /\ cl_pc = "backoff_sleep" =>
          (GLOBAL_CACHE.status = "error" /\ sleep_for = backoff)
    /\ (rl_pc = "wait" /\ woken_by = "trigger" /\ payload.data = "error") =>
          GLOBAL_CACHE.status = "error"

\* C12 (detail keys): whenever no publish is in the middle of its critical
\* section, the codes of the cached detail map are codes of stocks of the
\* cached snapshot.
C12_DetailKeysSubset ==
    CACHE_LOCK # "cache_loop" =>
        GLOBAL_CACHE.detail.codes \subseteq StockCodes(GLOBAL_CACHE.snapshot)

\* The second publish or a later one is over and a reader holds the lock:
\* the detail map that was replaced had a code the new snapshot does not
\* list.
C12_Witness ==
    /\ h_pc = "locked"
    /\ published >= 2
    /\ GLOBAL_CACHE.snapshot.cycle = published
    /\ cycle_start.detail.codes # {}
    /\ ~(cycle_start.detail.codes \subseteq StockCodes(GLOBAL_CACHE.snapshot))
    /\ GLOBAL_CACHE.detail.codes # {}

\* C13 (publish, then notify): when a cycle of cache_loop has published and
\* gone to sleep, the event last handed to the hub is a snapshot event (the
\* one of that publish).
C13_PublishThenNotify ==
    cl_pc = "interval_sleep" => latest_payload.data = "snapshot"

\* C14 (snapshot frames): every frame of type snapshot a connection received
\* carries a snapshot; a failed fetch put no frame in any inbox.
C14_SnapshotFramesFromSuccess ==
    \A c \in Conns :
        \A k \in 1..Len(inbox[c]) :
            inbox[c][k] # Hello => inbox[c][k].data = "snapshot"

\* The snapshot frames of a sequence of frames have increasing seq.
FrameSeqsIncrease(q) ==
    \A j \in 1..Len(q), k \in 1..Len(q) :
        (j < k /\ q[j] # Hello /\ q[k] # Hello) => q[j].seq < q[k].seq

\* C15 (delivery order): every connection receives its snapshot frames with
\* strictly increasing seq; no connection holds a frame of a later event
\* than the one being broadcast; and refresh_loop is back at do_refresh
\* only when the broadcast before it has made all its sends.
C15_DeliveryOrder ==
    /\ \A c \in Conns : FrameSeqsIncrease(inbox[c])
    /\ \A c \in Conns : \A n \in ReceivedSeqs(c) : n <= payload.seq
    /\ rl_pc \in {"top", "await_work"} => bc_clients = <<>>
    /\ rl_pc = "broadcast" => (payload.seq = i /\ bc_clients # <<>>)

\* Broadcast 2 is under way: one connection has received events 1 and 2,
\* another has received event 1 and is next.
C15_Witness ==
    \E x \in Conns, y \in Conns :
        /\ x # y
        /\ rl_pc = "broadcast"
        /\ payload.seq = 2
        /\ ReceivedSeqs(x) = {1, 2}
        /\ ReceivedSeqs(y) = {1}
        /\ Head(bc_clients) = y

\* C17 (trigger responsiveness): a trigger that arrived while no fetch was
\* in flight keeps the event set until an aggregate fetch starts.
C17_TriggerResponsiveness ==
    [][ (refresh_now /\ trig_after /\ InFlight = 0)
            => (refresh_now' \/ InFlight' > 0) ]_vars

\* The positions of the two loops; neither has a position after its
\* "while True:".
CacheLoopPcs ==
    {"top", "build", "detail", "swap", "interval_sleep", "except",
     "backoff_sleep"} \cup SwapPcs
RefreshLoopPcs == {"top", "await_work", "broadcast", "wait"}

HelloCount(c) ==
    Cardinality({ k \in 1..Len(inbox[c]) : inbox[c][k] = Hello })

\* C18 (greeting): a connection that was accepted is in the hub when its
\* hello frame is sent (unless a failed send of a broadcast has removed it
\* meanwhile), it has been sent one hello frame from its registration on,
\* none before, and never more than one.
C18_Greeting ==
    \A c \in Conns :
        /\ HelloCount(c) <= 1
        /\ ws_pc[c] \in {"new", "rejected", "accepting"} =>
              HelloCount(c) = 0
        /\ ws_pc[c] \in {"new", "rejected", "accepting"} => c \notin hub_clients
        /\ ws_pc[c] \in {"hello", "receiving"} =>
              (c \in hub_clients \/ bc_failed[c] > 0)
        /\ ws_pc[c] \in {"hello", "receiving"} => HelloCount(c) = 1

\* A connection has its hello frame and two snapshot frames after it, and
\* is still registered.
C18_Witness ==
    \E c \in Conns :
        /\ ws_pc[c] = "receiving"
        /\ c \in hub_clients
        /\ Len(inbox[c]) = 3
        /\ inbox[c][1] = Hello
        /\ HelloCount(c) = 1

\* C19 (unsubscribe is idempotent): removing a connection twice gives what
\* removing it once gives, removing one that is not in the set gives the
\* set; the cleanup of a handler whose connection a failed send has already
\* removed leaves the set as it is, and the set only ever holds connections.
C19_UnsubscribeIdempotent ==
    /\ [](\A c \in Conns :
            /\ Hub_remove(Hub_remove(hub_clients, c), c) = Hub_remove(hub_clients, c)
            /\ c \notin hub_clients => Hub_remove(hub_clients, c) = hub_clients)
    /\ [](hub_clients \subseteq Conns)
    /\ [][ \A c \in Conns :
              ( /\ ws_pc[c] \in {"hello", "receiving"}
                /\ ws_pc'[c] = "done"
                /\ c \notin hub_clients )
              => hub_clients' = hub_clients ]_vars

\* A failed send removed a connection, its handler has then run its
\* cleanup, and the other connection is still registered.
C19_Witness ==
    \E x \in Conns, y \in Conns :
        /\ x # y
        /\ bc_failed[x] > 0
        /\ ws_pc[x] = "done"
        /\ y \in hub_clients

\* C20 (stale availability under outage): a connection whose request was
\* handled while the status was "error" is refused only for its token, is
\* registered with the hub and gets its hello frame; and while the status
\* is "error" after a publish, GET /snapshot answers with the snapshot of
\* the last publish.
C20_StaleAvailabilityUnderOutage ==
    /\ \A c \in Conns :
          joined_in[c] = "error" =>
              /\ ws_pc[c] = "rejected" => APP_TOKEN # ""
              /\ ws_pc[c] \in {"hello", "receiving"} => c \in hub_clients
              /\ ws_pc[c] = "receiving" => HelloCount(c) = 1
    /\ (GLOBAL_CACHE.status = "error" /\ published > 0 /\ cl_pc \notin SwapPcs) =>
          /\ SnapshotResponse.kind = "snapshot"
          /\ SnapshotResponse.cycle = published

\* The cycle after a publish failed; a connection that arrived during the
\* outage is registered and has its hello frame, and GET /snapshot has
\* answered with the snapshot of the publish.
C20_Witness ==
    \E c \in Conns :
        /\ GLOBAL_CACHE.status = "error"
        /\ published = 1
        /\ fail_run = 1
        /\ joined_in[c] = "error"
        /\ ws_pc[c] = "receiving"
        /\ c \in hub_clients
        /\ inbox[c] = <<Hello>>
        /\ http_resp = [kind |-> "snapshot", cycle |-> 1, dcycle |-> 0]

\* C21 (broadcast always completes): every call of Hub.broadcast returns,
\* whatever the peers do; in particular when the peer of one subscriber has
\* stopped reading and the send to it never returns.
C21_BroadcastCompletes == (rl_pc = "broadcast") ~> (rl_pc # "broadcast")

\* The places at which cache_loop is suspended: the aggregate fetch, a detail
\* fetch, the interval sleep and the backoff sleep.
SuspensionPcs == {"build", "detail", "interval_sleep", "backoff_sleep"}

\* C22 (no lock across a suspension point): whenever cache_loop is inside an
\* aggregate fetch, a detail fetch, an interval sleep or a backoff sleep it
\* does not hold the cache lock, and while it holds the lock it has the event
\* loop (it is not suspended), so a reader can take the lock meanwhile.
C22_NoLockAcrossSuspension ==
    /\ cl_pc \in SuspensionPcs => CACHE_LOCK # "cache_loop"
    /\ CACHE_LOCK = "cache_loop" => loop_task = "cache_loop"

\* A reader holds the lock while the detail fetches of a later cycle are in
\* progress.
C22_Witness ==
    /\ cl_pc = "detail"
    /\ published >= 1
    /\ cycle > published
    /\ h_pc = "locked"
    /\ CACHE_LOCK = "health"

\* C23 (no hub lock across a send): the hub lock is free in every state in
\* which a coroutine can be suspended, in particular while a send of a
\* broadcast is pending; and a step that subscribes or unsubscribes a
\* connection while a send is pending finds it free.
C23_HubLockFreeWhileSending ==
    /\ [](rl_pc = "broadcast" => hub_lock = "free")
    /\ [][(rl_pc = "broadcast" /\ hub_clients' # hub_clients) =>
              (hub_lock = "free" /\ hub_lock' = "free")]_vars

\* While the send to a subscriber whose peer has stopped reading is pending,
\* a connection that is not in the copied list has subscribed.
C23_Witness ==
    /\ rl_pc = "broadcast"
    /\ conn_stalled[Head(bc_clients)]
    /\ conn_open[Head(bc_clients)]
    /\ \E c \in Conns : c \in hub_clients /\ c \notin bc_all

\* C24 (single writer): a step that changes the cache state is a step of
\* cache_loop: one of the four assignments of the swap, inside its critical
\* section, or the status-only change of a failed cycle; no step of a reader,
\* of POST /refresh, of a connection handler or of refresh_loop changes it.
C24_SingleWriter ==
    [][GLOBAL_CACHE' # GLOBAL_CACHE =>
         \/ /\ cl_pc \in SwapPcs
            /\ cl_pc' # cl_pc
            /\ CACHE_LOCK = "cache_loop"
         \/ /\ cl_pc = "except"
            /\ cl_pc' = "backoff_sleep"
            /\ GLOBAL_CACHE' = [GLOBAL_CACHE EXCEPT !.status = "error"]]_vars

\* After a publish: a detail lookup has been answered, a refresh trigger has
\* arrived, the connection has subscribed, received a broadcast frame and
\* unsubscribed, and the cache still holds what the worker published.
C24_Witness ==
    /\ published = 1
    /\ cl_pc = "interval_sleep"
    /\ GLOBAL_CACHE.status = "ready"
    /\ GLOBAL_CACHE.snapshot.cycle = published
    /\ http_resp.kind = "detail"
    /\ trig_after
    /\ ws_pc[1] = "done"
    /\ Len(inbox[1]) >= 2
    /\ 1 \notin hub_clients

\* C25 (field consistency): whenever no publish is in the middle of its
\* critical section, status warming_up goes with an absent snapshot and an
\* empty detail map, status ready goes with a snapshot, and updated_at is
\* absent exactly when the snapshot is.
C25_FieldConsistency ==
    CACHE_LOCK # "cache_loop" =>
        /\ GLOBAL_CACHE.status = "warming_up" =>
              (GLOBAL_CACHE.snapshot = NoSnapshot /\ GLOBAL_CACHE.detail.codes = {})
        /\ GLOBAL_CACHE.status = "ready" => GLOBAL_CACHE.snapshot # NoSnapshot
        /\ GLOBAL_CACHE.updated_at = NoTime <=> GLOBAL_CACHE.snapshot = NoSnapshot

\* A reader holds the lock after the second publish: status ready, a
\* snapshot, and the time of that publish.
C25_Witness ==
    /\ h_pc = "locked"
    /\ published = 2
    /\ GLOBAL_CACHE.status = "ready"
    /\ GLOBAL_CACHE.snapshot.cycle = 2
    /\ GLOBAL_CACHE.updated_at = published_at
    /\ GLOBAL_CACHE.updated_at # NoTime

\* The places of a cycle of cache_loop before its swap and after its failure.
BeforeSwapPcs == {"build", "detail", "swap", "except", "backoff_sleep"}

\* C26 (no partial publish): from the start of a cycle until its swap takes
\* the lock, and after its failure, the cached snapshot and detail map are
\* those of the start of the cycle: the complete pair of the last publish
\* (or the empty pair), nothing the cycle has fetched.
C26_NoPartialPublish ==
    (cl_pc \in BeforeSwapPcs /\ cycle > 0) =>
        /\ published < cycle
        /\ GLOBAL_CACHE.snapshot = cycle_start.snapshot
        /\ GLOBAL_CACHE.detail = cycle_start.detail
        /\ GLOBAL_CACHE.snapshot.cycle = published
        /\ GLOBAL_CACHE.detail.cycle = published

\* A cycle after a publish has fetched a snapshot and a detail and is at its
\* next detail fetch, and a reader holds the lock on the pair of that publish.
C26_Witness ==
    /\ cl_pc = "detail"
    /\ published >= 1
    /\ new_detail.codes # {}
    /\ new_snapshot.cycle = cycle
    /\ h_pc = "locked"
    /\ GLOBAL_CACHE.snapshot.cycle = published
    /\ GLOBAL_CACHE.detail.cycle = published

\* C27 (greeting comes first): the first frame handed to a connection is its
\* hello frame; every frame of a broadcast comes after it, also a broadcast
\* that copied the set of clients while the send of hello had not returned.
C27_GreetingFirst ==
    \A c \in Conns :
        \A k \in 1..Len(inbox[c]) :
            inbox[c][k] # Hello => (k > 1 /\ inbox[c][1] = Hello)

\* The send of hello has not returned yet, and a frame of a broadcast is
\* already behind the hello frame.
C27_Witness ==
    \E c \in Conns :
        /\ ws_pc[c] = "hello"
        /\ Len(inbox[c]) = 2
        /\ inbox[c][1] = Hello
        /\ inbox[c][2] = payload
        /\ payload.seq >= 1

\* C28 (the subscriber set tracks live handlers): every connection in the
\* hub's set has a handler that is between its registration and its cleanup;
\* and a step that adds a connection is the registration step of its own
\* handler, so a connection whose handler has ended is never added again,
\* also not by a broadcast that copied the set before.
C28_SubscribersAreLive ==
    /\ [](\A c \in hub_clients : ws_pc[c] \in {"hello", "receiving"})
    /\ [][\A c \in Conns :
            (c \notin hub_clients /\ c \in hub_clients') =>
                (ws_pc[c] = "accepting" /\ ws_pc'[c] = "hello")]_vars

\* A handler has ended while a broadcast whose copy holds its connection is
\* still sending.
C28_Witness ==
    \E c \in Conns :
        /\ rl_pc = "broadcast"
        /\ c \in Elems(bc_clients)
        /\ ws_pc[c] = "done"
        /\ c \notin hub_clients

\* C29 (push connections need the token): when a token is configured, a
\* connection whose request had no token or a wrong one was refused: it was
\* never accepted, is not in the hub's set nor in a broadcast's copy of it,
\* and no frame was sent to it.
C29_TokenGuardsPush ==
    APP_TOKEN # "" =>
        \A c \in Conns :
            ws_token[c] \in {"", "wrong"} =>
                /\ ws_pc[c] = "rejected"
                /\ ~conn_open[c]
                /\ c \notin hub_clients
                /\ c \notin bc_all
                /\ c \notin Elems(bc_clients)
                /\ inbox[c] = <<>>
                /\ bc_failed[c] = 0

\* The first connection came without a token and was refused; the second
\* came with the token, and a broadcast has gone out to it alone.
C29_Witness ==
    /\ APP_TOKEN = "secret"
    /\ ws_token[1] = ""
    /\ ws_pc[1] = "rejected"
    /\ ws_token[2] = "secret"
    /\ bc_all = {2}
    /\ Len(inbox[2]) >= 2
    /\ inbox[1] = <<>>

\* C30 (refresh needs the token): when a token is configured a request with
\* no token or a wrong one is unauthorized; a step that answers unauthorized
\* changes nothing but the response (not the trigger, not the workers, not
\* the cache), and the trigger is only ever set by a step that answers ok.
C30_TokenGuardsRefresh ==
    /\ [](APP_TOKEN # "" => (Unauthorized("") /\ Unauthorized("wrong")))
    /\ [][(http_resp'.kind = "unauthorized" /\ http_resp' # http_resp) =>
              UNCHANGED <<refresh_now, trigVars, rlVars, cacheVars, hubVars>>]_vars
    /\ [][(refresh_now' /\ ~refresh_now) => http_resp'.kind = "ok"]_vars
    /\ [][(http_resp.kind = "unauthorized" /\ UNCHANGED http_resp) =>
              (refresh_now' => refresh_now)]_vars

\* A token is configured, refresh_loop waits for the trigger after its first
\* iteration, a request was answered unauthorized, and the trigger is not set.
C30_Witness ==
    /\ APP_TOKEN = "secret"
    /\ http_resp.kind = "unauthorized"
    /\ rl_pc = "wait"
    /\ i = 1
    /\ ~refresh_now
    /\ ~trig_after
    /\ trig_window = 0

====
